---- MODULE Spec2Model ----
(***************************************************************************)
(* Model of the evaluation call stack of Nickel (src/src/eval/callstack.rs) *)
(* : the marker log `CallStack(pub Vec<StackElem>)`, its mutators           *)
(* enter_var / enter_app / enter_fun / enter_field / truncate / len, and    *)
(* the reconstruction `group_by_calls`.                                     *)
(***************************************************************************)
EXTENDS Naturals, Sequences, FiniteSets

VARIABLES
    log,    \* CallStack.0 : the Vec<StackElem>
    op,     \* the last operation invoked on the call stack, with its arguments
    res,    \* results of the group_by_calls invocations since the last other operation
    ckpt,   \* a checkpoint taken with len(): the recorded length and the log then
    todo    \* the producer calls the evaluator still has to make (scripted runs)

vars == <<log, op, res, ckpt, todo>>

(***************************************************************************)
(* Bounds                                                                  *)
(***************************************************************************)
\* longest log the producer specification builds
MaxLen == 3
\* longest log the reconstruction specification builds
MaxLogLen == 2
MaxRawLen == 3
MaxMergeLen == 3

(***************************************************************************)
(* Positions (crate::position, consumed by callstack.rs)                   *)
(***************************************************************************)
\* FileId values: sources 0 and 1 hold the spans of the markers; any of the three
\* may be the file of the builtin contracts
Files == {0, 1, 2}

RawSpan(f, s, e) == [src_id |-> f, start |-> s, end |-> e]

SpansOver(files, offs) ==
    {sp \in [src_id : files, start : offs, end : offs] : sp.start <= sp.end}

NonePos == [tag |-> "None"]
Original(sp) == [tag |-> "Original", span |-> sp]
Inherited(sp) == [tag |-> "Inherited", span |-> sp]

TermPosOver(spans) ==
    {NonePos} \cup {Original(sp) : sp \in spans} \cup {Inherited(sp) : sp \in spans}

\* TermPos::is_def : the position is defined, i.e. it is not TermPos::None
is_def(pos) == pos.tag # "None"

\* RawSpan's PartialOrd `<=` : inclusion of spans of one file
SpanLe(a, b) ==
    /\ a.src_id = b.src_id
    /\ a.start >= b.start
    /\ a.end <= b.end

\* Ident::is_generated : identifiers introduced by program transformations
GeneratedIdents == {"%1"}
is_generated(id) == id \in GeneratedIdents

(***************************************************************************)
(* StackElem                                                               *)
(***************************************************************************)
Fun(pos) == [type |-> "Fun", pos |-> pos]
App(pos) == [type |-> "App", pos |-> pos]
Var(kind, id, pos) == [type |-> "Var", kind |-> kind, id |-> id, pos |-> pos]
Field(id, pos_record, pos_field, pos_access) ==
    [type |-> "Field", id |-> id, pos_record |-> pos_record,
     pos_field |-> pos_field, pos_access |-> pos_access]

\* CallDescr; Option<Ident> is <<>> (None) or <<id>> (Some(id))
CallDescr(head, span) == [head |-> head, span |-> span]

(***************************************************************************)
(* Mutators of the log                                                     *)
(***************************************************************************)
new == <<>>

\* mutant: the test of the guard is inverted
enter_app_undefined(l, pos) == IF ~is_def(pos) THEN Append(l, App(pos)) ELSE l

\* mutant: the guard of enter_app is applied to variables too
enter_var_guarded(l, kind, id, pos) ==
    IF is_def(pos) THEN Append(l, Var(kind, id, pos)) ELSE l

enter_var(l, kind, id, pos) == Append(l, Var(kind, id, pos))

\* mutant: only original positions are pushed
enter_app_original(l, pos) == IF pos.tag = "Original" THEN Append(l, App(pos)) ELSE l

enter_app(l, pos) == IF is_def(pos) THEN Append(l, App(pos)) ELSE l

\* mutant: the guard is missing
enter_fun_unguarded(l, pos) == Append(l, Fun(pos))

enter_fun(l, pos) == IF is_def(pos) THEN Append(l, Fun(pos)) ELSE l

enter_field(l, id, pos_record, pos_field, pos_access) ==
    Append(l, Field(id, pos_record, pos_field, pos_access))

len(l) == Len(l)

\* mutant: n taken as the last index kept
truncate_inclusive(l, n) == IF n + 1 >= Len(l) THEN l ELSE SubSeq(l, 1, n + 1)

\* mutant: n taken as the number of markers to remove
truncate_suffix(l, n) == IF n >= Len(l) THEN <<>> ELSE SubSeq(l, 1, Len(l) - n)

\* Vec::truncate : keeps the first n elements, no effect when n >= len
truncate(l, n) == IF n >= Len(l) THEN l ELSE SubSeq(l, 1, n)

(***************************************************************************)
(* group_by_calls                                                          *)
(***************************************************************************)
\* TermPos::unwrap panics on TermPos::None
CanUnwrap(pos) == pos.tag # "None"
unwrap(pos) == pos.span

\* the attributed position of a marker: pos, or pos_access for a Field
PosOf(elem) == IF elem.type = "Field" THEN elem.pos_access ELSE elem.pos

\* mutant: Fun markers are kept when inherited instead of original
KeepFunInherited(elem, contract_id) ==
    IF elem.type = "Var" /\ is_generated(elem.id) THEN FALSE
    ELSE IF \/ elem.type \in {"Var", "Field"}
               /\ PosOf(elem).tag \in {"Original", "Inherited"}
            \/ elem.type = "App" /\ PosOf(elem).tag = "Original"
            \/ elem.type = "Fun" /\ PosOf(elem).tag = "Inherited"
         THEN PosOf(elem).span.src_id # contract_id
         ELSE FALSE

\* mutant: the test on the file is inverted (== for !=)
KeepInverted(elem, contract_id) ==
    IF elem.type = "Var" /\ is_generated(elem.id) THEN FALSE
    ELSE IF \/ elem.type \in {"Var", "Field"}
               /\ PosOf(elem).tag \in {"Original", "Inherited"}
            \/ elem.type \in {"Fun", "App"}
               /\ PosOf(elem).tag = "Original"
         THEN PosOf(elem).span.src_id = contract_id
         ELSE FALSE

\* mutant: the arm dropping generated variables is missing
KeepGenerated(elem, contract_id) ==
    IF \/ elem.type \in {"Var", "Field"}
          /\ PosOf(elem).tag \in {"Original", "Inherited"}
       \/ elem.type \in {"Fun", "App"}
          /\ PosOf(elem).tag = "Original"
    THEN PosOf(elem).span.src_id # contract_id
    ELSE FALSE

\* mutant: the guard on the file does not cover the App arm
KeepAppUnguarded(elem, contract_id) ==
    IF elem.type = "Var" /\ is_generated(elem.id) THEN FALSE
    ELSE IF elem.type = "App" /\ PosOf(elem).tag = "Original" THEN TRUE
    ELSE IF \/ elem.type \in {"Var", "Field"}
               /\ PosOf(elem).tag \in {"Original", "Inherited"}
            \/ elem.type = "Fun" /\ PosOf(elem).tag = "Original"
         THEN PosOf(elem).span.src_id # contract_id
         ELSE FALSE

\* mutant: markers without a position pass the filter
KeepUndefined(elem, contract_id) ==
    IF elem.type = "Var" /\ is_generated(elem.id) THEN FALSE
    ELSE IF PosOf(elem).tag = "None" THEN TRUE
    ELSE IF \/ elem.type \in {"Var", "Field"}
            \/ elem.type \in {"Fun", "App"}
               /\ PosOf(elem).tag = "Original"
         THEN PosOf(elem).span.src_id # contract_id
         ELSE FALSE

\* mutant: App and Fun are kept with an inherited position as Var and Field are
KeepInheritedApps(elem, contract_id) ==
    IF elem.type = "Var" /\ is_generated(elem.id) THEN FALSE
    ELSE IF PosOf(elem).tag \in {"Original", "Inherited"}
         THEN PosOf(elem).span.src_id # contract_id
         ELSE FALSE

\* the closure given to filter()
Keep(elem, contract_id) ==
    IF elem.type = "Var" /\ is_generated(elem.id) THEN FALSE
    ELSE IF \/ elem.type \in {"Var", "Field"}
               /\ PosOf(elem).tag \in {"Original", "Inherited"}
            \/ elem.type \in {"Fun", "App"}
               /\ PosOf(elem).tag = "Original"
         THEN PosOf(elem).span.src_id # contract_id
         ELSE FALSE

Filtered(l, contract_id) == SelectSeq(l, LAMBDA elem : Keep(elem, contract_id))

Last(s) == s[Len(s)]
Front(s) == SubSeq(s, 1, Len(s) - 1)

\* state of the loop: the two local vectors, and whether an unwrap() panicked
InitLoop == [pending |-> <<>>, entered |-> <<>>, panicked |-> FALSE]

\* mutant: the containment test is taken the other way round
StepIdentInverted(st, elt) ==
    IF st.pending # <<>> /\ Last(st.pending).head = <<>>
    THEN IF ~CanUnwrap(PosOf(elt)) THEN [st EXCEPT !.panicked = TRUE]
         ELSE IF SpanLe(Last(st.pending).span, unwrap(PosOf(elt)))
              THEN [st EXCEPT !.pending[Len(st.pending)].head = <<elt.id>>]
              ELSE st
    ELSE st

\* mutant: the pattern does not ask for a call without head
StepIdentOverwrite(st, elt) ==
    IF st.pending # <<>>
    THEN IF ~CanUnwrap(PosOf(elt)) THEN [st EXCEPT !.panicked = TRUE]
         ELSE IF SpanLe(unwrap(PosOf(elt)), Last(st.pending).span)
              THEN [st EXCEPT !.pending[Len(st.pending)].head = <<elt.id>>]
              ELSE st
    ELSE st

\* arm StackElem::Var | StackElem::Field
StepIdent(st, elt) ==
    IF st.pending # <<>> /\ Last(st.pending).head = <<>>
    THEN IF ~CanUnwrap(PosOf(elt)) THEN [st EXCEPT !.panicked = TRUE]
         ELSE IF SpanLe(unwrap(PosOf(elt)), Last(st.pending).span)
              THEN [st EXCEPT !.pending[Len(st.pending)].head = <<elt.id>>]
              ELSE st
    ELSE st

\* mutant: subcalls are not merged, every App opens a call
StepAppNoMerge(st, elt) ==
    IF ~CanUnwrap(elt.pos) THEN [st EXCEPT !.panicked = TRUE]
    ELSE [st EXCEPT !.pending = Append(@, CallDescr(<<>>, unwrap(elt.pos)))]

\* mutant: a subcall of any pending call is merged, not only of the top one
StepAppAnyPending(st, elt) ==
    IF ~CanUnwrap(elt.pos) THEN [st EXCEPT !.panicked = TRUE]
    ELSE LET span == unwrap(elt.pos) IN
         IF \E i \in 1..Len(st.pending) :
               /\ SpanLe(span, st.pending[i].span)
               /\ span.start = st.pending[i].span.start
         THEN st
         ELSE [st EXCEPT !.pending = Append(@, CallDescr(<<>>, span))]

\* arm StackElem::App
StepApp(st, elt) ==
    IF ~CanUnwrap(elt.pos) THEN [st EXCEPT !.panicked = TRUE]
    ELSE LET span == unwrap(elt.pos) IN
         IF /\ st.pending # <<>>
            /\ SpanLe(span, Last(st.pending).span)
            /\ span.start = Last(st.pending).span.start
         THEN st
         ELSE [st EXCEPT !.pending = Append(@, CallDescr(<<>>, span))]

\* mutant: the innermost pending call with that span is closed, wherever it is
StepFunAnyPending(st, elt) ==
    IF ~CanUnwrap(elt.pos) THEN [st EXCEPT !.panicked = TRUE]
    ELSE LET span == unwrap(elt.pos)
             at == {i \in 1..Len(st.pending) : st.pending[i].span = span}
         IN  IF at # {}
             THEN LET i == CHOOSE j \in at : \A m \in at : m <= j IN
                  [st EXCEPT !.entered = Append(@, st.pending[i]),
                             !.pending = SubSeq(@, 1, i - 1)
                                         \o SubSeq(@, i + 1, Len(@))]
             ELSE st

\* mutant: the top call is closed when it encloses the span, as for a subcall
StepFunEnclosing(st, elt) ==
    IF ~CanUnwrap(elt.pos) THEN [st EXCEPT !.panicked = TRUE]
    ELSE LET span == unwrap(elt.pos) IN
         IF st.pending # <<>> /\ SpanLe(span, Last(st.pending).span)
         THEN [st EXCEPT !.entered = Append(@, Last(st.pending)),
                         !.pending = Front(@)]
         ELSE st

\* arm StackElem::Fun
StepFun(st, elt) ==
    IF ~CanUnwrap(elt.pos) THEN [st EXCEPT !.panicked = TRUE]
    ELSE LET span == unwrap(elt.pos) IN
         IF st.pending # <<>> /\ Last(st.pending).span = span
         THEN [st EXCEPT !.entered = Append(@, Last(st.pending)),
                         !.pending = Front(@)]
         ELSE st

\* one iteration of `for elt in it`
Step(st, elt) ==
    IF st.panicked THEN st
    ELSE IF elt.type \in {"Var", "Field"} THEN StepIdent(st, elt)
    ELSE IF elt.type = "App" THEN StepApp(st, elt)
    ELSE StepFun(st, elt)

RECURSIVE Loop(_, _)
Loop(st, it) == IF it = <<>> THEN st ELSE Loop(Step(st, Head(it)), Tail(it))

\* the local vectors after the loop has consumed the surviving markers of l
LoopAt(l, contract_id) == Loop(InitLoop, Filtered(l, contract_id))

RECURSIVE Reverse(_)
Reverse(s) == IF s = <<>> THEN <<>> ELSE Append(Reverse(Tail(s)), Head(s))

\* mutant: entered.reverse() is missing
group_by_calls_unreversed(l, contract_id) ==
    LET st == Loop(InitLoop, Filtered(l, contract_id)) IN
    IF st.panicked THEN [panicked |-> TRUE, closed |-> <<>>, open |-> <<>>]
    ELSE [panicked |-> FALSE,
          closed |-> st.entered,
          open |-> IF st.pending = <<>> THEN <<>> ELSE <<Last(st.pending)>>]

\* mutant: the open call is the outermost pending call
group_by_calls_outermost(l, contract_id) ==
    LET st == Loop(InitLoop, Filtered(l, contract_id)) IN
    IF st.panicked THEN [panicked |-> TRUE, closed |-> <<>>, open |-> <<>>]
    ELSE [panicked |-> FALSE,
          closed |-> Reverse(st.entered),
          open |-> IF st.pending = <<>> THEN <<>> ELSE <<Head(st.pending)>>]

\* the pair returned: (entered reversed, pending.pop()); Option is <<>> or <<x>>
group_by_calls(l, contract_id) ==
    LET st == Loop(InitLoop, Filtered(l, contract_id)) IN
    IF st.panicked THEN [panicked |-> TRUE, closed |-> <<>>, open |-> <<>>]
    ELSE [panicked |-> FALSE,
          closed |-> Reverse(st.entered),
          open |-> IF st.pending = <<>> THEN <<>> ELSE <<Last(st.pending)>>]

(***************************************************************************)
(* Operations as actions.  `op` records the call and its arguments.        *)
(***************************************************************************)
NoCkpt == [set |-> FALSE, c |-> 0, saved |-> <<>>]

EnterVar(kind, id, pos) ==
    /\ log' = enter_var(log, kind, id, pos)
    /\ op' = [name |-> "enter_var", kind |-> kind, id |-> id, pos |-> pos]
    /\ res' = <<>>
    /\ UNCHANGED ckpt

EnterField(id, pos_record, pos_field, pos_access) ==
    /\ log' = enter_field(log, id, pos_record, pos_field, pos_access)
    /\ op' = [name |-> "enter_field", id |-> id, pos_record |-> pos_record,
              pos_field |-> pos_field, pos_access |-> pos_access]
    /\ res' = <<>>
    /\ UNCHANGED ckpt

EnterApp(pos) ==
    /\ log' = enter_app(log, pos)
    /\ op' = [name |-> "enter_app", pos |-> pos]
    /\ res' = <<>>
    /\ UNCHANGED ckpt

EnterFun(pos) ==
    /\ log' = enter_fun(log, pos)
    /\ op' = [name |-> "enter_fun", pos |-> pos]
    /\ res' = <<>>
    /\ UNCHANGED ckpt

\* truncate(n); a checkpoint above n no longer describes a prefix of the log
Truncate(n) ==
    /\ log' = truncate(log, n)
    /\ op' = [name |-> "truncate", n |-> n, oldlen |-> len(log)]
    /\ res' = <<>>
    /\ ckpt' = IF ckpt.set /\ n < ckpt.c THEN NoCkpt ELSE ckpt

\* len(), used to take a checkpoint before a strict sub-evaluation
TakeLen ==
    /\ op' = [name |-> "len", n |-> len(log)]
    /\ ckpt' = [set |-> TRUE, c |-> len(log), saved |-> log]
    /\ res' = <<>>
    /\ UNCHANGED log

\* mutant: the markers are consumed by the reconstruction
GroupByCallsDraining(contract_id) ==
    /\ op' = [name |-> "group_by_calls", contract_id |-> contract_id,
              repeated |-> (op.name = "group_by_calls")]
    /\ res' = <<group_by_calls(log, contract_id)>>
    /\ log' = <<>>
    /\ UNCHANGED ckpt

\* group_by_calls(&self, contract_id): the log is borrowed immutably.  `res`
\* holds the pair returned; op.repeated tells that the operation before was a
\* group_by_calls too.
GroupByCalls(contract_id) ==
    /\ op' = [name |-> "group_by_calls", contract_id |-> contract_id,
              repeated |-> (op.name = "group_by_calls")]
    /\ res' = <<group_by_calls(log, contract_id)>>
    /\ UNCHANGED <<log, ckpt>>

\* the vector of a CallStack is public: a marker is pushed on it directly
Place(elem) ==
    /\ log' = Append(log, elem)
    /\ op' = [name |-> "place", elem |-> elem]
    /\ res' = <<>>
    /\ UNCHANGED ckpt

Init ==
    /\ log = new
    /\ op = [name |-> "new"]
    /\ res = <<>>
    /\ ckpt = NoCkpt
    /\ todo = <<>>

(***************************************************************************)
(* Spec: the mutators of the log, with checkpoint (len) and rollback       *)
(***************************************************************************)
IdentKinds == {"Let"}
Idents == {"f", "%1"}
ApiPos == TermPosOver({RawSpan(1, 0, 1)})

Next ==
    \/ \E kind \in IdentKinds, id \in Idents, pos \in ApiPos :
          len(log) < MaxLen /\ EnterVar(kind, id, pos) /\ UNCHANGED todo
    \/ \E id \in Idents, pos \in ApiPos :
          len(log) < MaxLen /\ EnterField(id, NonePos, NonePos, pos) /\ UNCHANGED todo
    \/ \E pos \in ApiPos : len(log) < MaxLen /\ EnterApp(pos) /\ UNCHANGED todo
    \/ \E pos \in ApiPos : len(log) < MaxLen /\ EnterFun(pos) /\ UNCHANGED todo
    \/ \E n \in 0..(MaxLen + 1) : Truncate(n) /\ UNCHANGED todo
    \/ TakeLen /\ UNCHANGED todo

Spec == Init /\ [][Next]_vars

(***************************************************************************)
(* SpecGroup: reconstruction over the logs the producer can build          *)
(***************************************************************************)
\* one span in file 0; an outer span, an enclosed span with the same start and
\* an enclosed span with another start in file 1
GroupSpans == {RawSpan(0, 0, 1)} \cup SpansOver({1}, {0, 1})
GroupPos == TermPosOver(GroupSpans)
FieldRecordPos == {NonePos, Original(RawSpan(0, 0, 1))}

NextGroup ==
    \/ \E kind \in IdentKinds, id \in Idents, pos \in GroupPos :
          len(log) < MaxLogLen /\ EnterVar(kind, id, pos) /\ UNCHANGED todo
    \/ \E id \in Idents, pos_record \in FieldRecordPos, pos \in GroupPos :
          /\ len(log) < MaxLogLen
          /\ EnterField(id, pos_record, NonePos, pos)
          /\ UNCHANGED todo
    \/ \E pos \in GroupPos : len(log) < MaxLogLen /\ EnterApp(pos) /\ UNCHANGED todo
    \/ \E pos \in GroupPos : len(log) < MaxLogLen /\ EnterFun(pos) /\ UNCHANGED todo
    \/ \E contract_id \in Files : GroupByCalls(contract_id) /\ UNCHANGED todo

SpecGroup == Init /\ [][NextGroup]_vars

(***************************************************************************)
(* SpecScenario: the evaluator replays the marker sequence of a call       *)
(* (`f arg`, a curried `f a b c`, two calls in sequence) through the        *)
(* mutators and reconstructs the call chain.                                *)
(***************************************************************************)
ScenSpans == SpansOver({0, 1}, {0, 1, 2})

CallVar(id, sp) == [fn |-> "enter_var", kind |-> "Let", id |-> id, pos |-> Original(sp)]
CallApp(sp) == [fn |-> "enter_app", pos |-> Original(sp)]
CallFun(sp) == [fn |-> "enter_fun", pos |-> Original(sp)]

Disjoint(a, b) == a.src_id = b.src_id /\ (a.end < b.start \/ b.end < a.start)

\* the nested applications of f a b c start where f starts
Nested(abc, ab, a) ==
    /\ SpanLe(ab, abc) /\ SpanLe(a, ab)
    /\ ab.start = abc.start /\ a.start = abc.start

SimpleRuns ==
    {<<CallVar("f", p), CallApp(s1), CallFun(s1)>> :
        p \in ScenSpans, s1 \in ScenSpans}

OpenRuns ==
    {<<CallVar("g", p), CallApp(s1)>> : p \in ScenSpans, s1 \in ScenSpans}

CurriedRuns ==
    {<<CallVar("f", t[1]), CallApp(t[2]), CallApp(t[3]), CallApp(t[4]),
       CallFun(t[4]), CallFun(t[3]), CallFun(t[2])>> :
        t \in {u \in ScenSpans \X ScenSpans \X ScenSpans \X ScenSpans :
                  Nested(u[2], u[3], u[4])}}

SequentialRuns ==
    {<<CallApp(t[2]), CallVar("f", t[1]), CallFun(t[2]),
       CallApp(t[4]), CallVar("h", t[3]), CallFun(t[4])>> :
        t \in {u \in ScenSpans \X ScenSpans \X ScenSpans \X ScenSpans :
                  SpanLe(u[1], u[2]) /\ SpanLe(u[3], u[4]) /\ Disjoint(u[2], u[4])}}

Runs ==
    {r \in SimpleRuns \cup OpenRuns : SpanLe(r[1].pos.span, r[2].pos.span)}
    \cup CurriedRuns \cup SequentialRuns

InitScenario ==
    /\ log = new
    /\ op = [name |-> "new"]
    /\ res = <<>>
    /\ ckpt = NoCkpt
    /\ todo \in Runs

NextScenario ==
    \/ /\ todo # <<>> /\ Head(todo).fn = "enter_var"
       /\ EnterVar(Head(todo).kind, Head(todo).id, Head(todo).pos)
       /\ todo' = Tail(todo)
    \/ /\ todo # <<>> /\ Head(todo).fn = "enter_app"
       /\ EnterApp(Head(todo).pos)
       /\ todo' = Tail(todo)
    \/ /\ todo # <<>> /\ Head(todo).fn = "enter_fun"
       /\ EnterFun(Head(todo).pos)
       /\ todo' = Tail(todo)
    \/ \E contract_id \in Files : GroupByCalls(contract_id) /\ UNCHANGED todo

SpecScenario == InitScenario /\ [][NextScenario]_vars

(***************************************************************************)
(* SpecRaw: reconstruction over arbitrary logs, whose markers are placed   *)
(* in the vector without going through the guards of enter_app/enter_fun   *)
(***************************************************************************)
RawSpans == {RawSpan(1, 0, 1), RawSpan(1, 0, 0)}
RawPos == TermPosOver(RawSpans)
RawFiles == {0, 1}

RawElems ==
    {Var(kind, id, pos) : kind \in IdentKinds, id \in Idents, pos \in RawPos}
    \cup {Field("f", NonePos, NonePos, pos) : pos \in RawPos}
    \cup {App(pos) : pos \in RawPos}
    \cup {Fun(pos) : pos \in RawPos}

NextRaw ==
    \/ \E elem \in RawElems :
          len(log) < MaxRawLen /\ Place(elem) /\ UNCHANGED todo
    \/ \E contract_id \in RawFiles : GroupByCalls(contract_id) /\ UNCHANGED todo

SpecRaw == Init /\ [][NextRaw]_vars

(***************************************************************************)
(* SpecMerge: reconstruction over logs of original positions of one file:  *)
(* an outer span, an enclosed span with the same start and an enclosed     *)
(* span with another start; two identifiers                                *)
(***************************************************************************)
MergeSpans == SpansOver({1}, {0, 1})
MergePos == {Original(sp) : sp \in MergeSpans}
MergeIdents == {"f", "g"}
MergeFieldPos == {Original(RawSpan(1, 0, 0))}

NextMerge ==
    \/ \E kind \in IdentKinds, id \in MergeIdents, pos \in MergePos :
          len(log) < MaxMergeLen /\ EnterVar(kind, id, pos) /\ UNCHANGED todo
    \/ \E id \in MergeIdents, pos \in MergeFieldPos :
          /\ len(log) < MaxMergeLen
          /\ EnterField(id, NonePos, NonePos, pos)
          /\ UNCHANGED todo
    \/ \E pos \in MergePos : len(log) < MaxMergeLen /\ EnterApp(pos) /\ UNCHANGED todo
    \/ \E pos \in MergePos : len(log) < MaxMergeLen /\ EnterFun(pos) /\ UNCHANGED todo
    \/ \E contract_id \in RawFiles : GroupByCalls(contract_id) /\ UNCHANGED todo

SpecMerge == Init /\ [][NextMerge]_vars

(***************************************************************************)
(* Properties                                                              *)
(***************************************************************************)
\* the last operation was group_by_calls(contract_id)
Called(contract_id) ==
    op.name = "group_by_calls" /\ op.contract_id = contract_id

\* group_by_calls returned (closed, open) without panicking
Returned(closed, open) ==
    res = <<[panicked |-> FALSE, closed |-> closed, open |-> open]>>

SimpleLog(id, p, s1) ==
    <<Var("Let", id, Original(p)), App(Original(s1)), Fun(Original(s1))>>

CurriedLog(id, p0, abc, ab, a) ==
    <<Var("Let", id, Original(p0)),
      App(Original(abc)), App(Original(ab)), App(Original(a)),
      Fun(Original(a)), Fun(Original(ab)), Fun(Original(abc))>>

OpenLog(id, p, s1) == <<Var("Let", id, Original(p)), App(Original(s1))>>

SequentialLog(f, p1, s1, h, p2, s2) ==
    <<App(Original(s1)), Var("Let", f, Original(p1)), Fun(Original(s1)),
      App(Original(s2)), Var("Let", h, Original(p2)), Fun(Original(s2))>>

\* every marker of the log carries an original position
AllOriginal == \A i \in 1..Len(log) : PosOf(log[i]).tag = "Original"

\* the span of the i-th marker of the log
SpanAt(i) == PosOf(log[i]).span

\* C1 as stated: on the log Var("f", p), App(s1), Fun(s1), with p within s1 and
\* outside the builtin file, group_by_calls returns ([{head: Some("f"), span: s1}], None).
C1_Original ==
    \A p \in ScenSpans, s1 \in ScenSpans, cid \in Files :
        (SpanLe(p, s1) /\ s1.src_id # cid /\ log = SimpleLog("f", p, s1) /\ Called(cid))
        => Returned(<<CallDescr(<<"f">>, s1)>>, <<>>)

\* C1 amended: on that log group_by_calls returns exactly one closed call with
\* span s1 and no open call, and the call has no head: the Var marker precedes
\* the App marker, so no call is pending when it is processed.
C1_SimpleUnnamed ==
    \A p \in ScenSpans, s1 \in ScenSpans, cid \in Files :
        (SpanLe(p, s1) /\ s1.src_id # cid /\ log = SimpleLog("f", p, s1) /\ Called(cid))
        => Returned(<<CallDescr(<<>>, s1)>>, <<>>)

C1_Witness ==
    \E p \in ScenSpans, s1 \in ScenSpans, cid \in Files :
        /\ SpanLe(p, s1) /\ s1.src_id # cid /\ p # s1
        /\ log = SimpleLog("f", p, s1) /\ Called(cid)
        /\ Len(res) = 1 /\ Len(res[1].closed) = 1

\* C2 as stated: on the curried log Var("f", p0), App(abc), App(ab), App(a),
\* Fun(a), Fun(ab), Fun(abc) group_by_calls returns exactly one closed call,
\* {head: Some("f"), span: abc}, and no open call.
C2_Original ==
    (Len(log) = 7 /\ AllOriginal /\ op.name = "group_by_calls") =>
        ((/\ log = CurriedLog("f", SpanAt(1), SpanAt(2), SpanAt(3), SpanAt(4))
          /\ Nested(SpanAt(2), SpanAt(3), SpanAt(4))
          /\ SpanAt(2).src_id # op.contract_id
          /\ SpanAt(1).src_id # op.contract_id)
         => Returned(<<CallDescr(<<"f">>, SpanAt(2))>>, <<>>))

\* C2 amended: on the curried log group_by_calls returns exactly one closed
\* call, with span abc and no head (the Var marker precedes the first App
\* marker), and no open call; the inner applications are not reported.
C2_CurriedCollapse ==
    (Len(log) = 7 /\ AllOriginal /\ op.name = "group_by_calls") =>
        ((/\ log = CurriedLog("f", SpanAt(1), SpanAt(2), SpanAt(3), SpanAt(4))
          /\ Nested(SpanAt(2), SpanAt(3), SpanAt(4))
          /\ SpanAt(2).src_id # op.contract_id
          /\ SpanAt(1).src_id # op.contract_id)
         => Returned(<<CallDescr(<<>>, SpanAt(2))>>, <<>>))

C2_Witness ==
    /\ Len(log) = 7 /\ AllOriginal /\ op.name = "group_by_calls"
    /\ log = CurriedLog("f", SpanAt(1), SpanAt(2), SpanAt(3), SpanAt(4))
    /\ Nested(SpanAt(2), SpanAt(3), SpanAt(4))
    /\ SpanAt(2) # SpanAt(3) /\ SpanAt(3) # SpanAt(4)
    /\ SpanAt(2).src_id # op.contract_id
    /\ Len(res) = 1 /\ Len(res[1].closed) = 1

\* C3 as stated: on the log Var("g", p), App(s1) with no Fun(s1) group_by_calls
\* returns ([], Some({head: Some("g"), span: s1})).
C3_Original ==
    \A p \in ScenSpans, s1 \in ScenSpans, cid \in Files :
        (SpanLe(p, s1) /\ s1.src_id # cid /\ log = OpenLog("g", p, s1) /\ Called(cid))
        => Returned(<<>>, <<CallDescr(<<"g">>, s1)>>)

\* C3 amended: on that log group_by_calls returns an empty closed list and the
\* open call Some({head: None, span: s1}).
C3_OpenUnnamed ==
    \A p \in ScenSpans, s1 \in ScenSpans, cid \in Files :
        (SpanLe(p, s1) /\ s1.src_id # cid /\ log = OpenLog("g", p, s1) /\ Called(cid))
        => Returned(<<>>, <<CallDescr(<<>>, s1)>>)

C3_Witness ==
    \E p \in ScenSpans, s1 \in ScenSpans, cid \in Files :
        /\ SpanLe(p, s1) /\ s1.src_id # cid /\ p # s1
        /\ log = OpenLog("g", p, s1) /\ Called(cid)
        /\ Len(res) = 1 /\ Len(res[1].open) = 1

\* s is a suffix of t
IsSuffix(s, t) ==
    Len(s) <= Len(t) /\ s = SubSeq(t, Len(t) - Len(s) + 1, Len(t))

\* C4: the closed list is in reverse closing order: the calls closed by any
\* prefix of the log come last in the list returned for the whole log, and
\* for two calls closed in sequence, first f then h, the list is [h, f].
C4_ReverseClosingOrder ==
    /\ \A cid \in Files, k \in 0..Len(log) :
          IsSuffix(group_by_calls(SubSeq(log, 1, k), cid).closed,
                   group_by_calls(log, cid).closed)
    /\ (Len(log) = 6 /\ AllOriginal /\ op.name = "group_by_calls") =>
          ((/\ log = SequentialLog("f", SpanAt(2), SpanAt(1), "h", SpanAt(5), SpanAt(4))
            /\ SpanLe(SpanAt(2), SpanAt(1)) /\ SpanLe(SpanAt(5), SpanAt(4))
            /\ Disjoint(SpanAt(1), SpanAt(4))
            /\ SpanAt(1).src_id # op.contract_id)
           => Returned(<<CallDescr(<<"h">>, SpanAt(4)), CallDescr(<<"f">>, SpanAt(1))>>,
                       <<>>))

C4_Witness ==
    /\ op.name = "group_by_calls" /\ Len(res) = 1
    /\ Len(log) = 6 /\ log[3].type = "Fun" /\ log[6].type = "Fun"
    /\ Len(res[1].closed) = 2
    /\ res[1].closed[1].head = <<"h">> /\ res[1].closed[1].span = log[6].pos.span
    /\ res[1].closed[2].head = <<"f">> /\ res[1].closed[2].span = log[3].pos.span

Descrs(r) ==
    {r.closed[i] : i \in 1..Len(r.closed)} \cup {r.open[i] : i \in 1..Len(r.open)}

\* C6 as stated: no call description returned by group_by_calls has a generated
\* identifier as head, whether it was logged through a Var or a Field marker.
C6_Original ==
    op.name = "group_by_calls" =>
        \A d \in Descrs(res[1]) : d.head = <<>> \/ ~is_generated(d.head[1])

\* C6 amended: a generated identifier logged through a Var marker never becomes
\* a head: every head returned is the identifier of a Field marker of the log
\* or of a Var marker whose identifier is not generated.
C6_GeneratedVarNeverHead ==
    op.name = "group_by_calls" =>
        \A d \in Descrs(res[1]) :
            d.head # <<>> =>
                \E i \in 1..Len(log) :
                    /\ log[i].type \in {"Var", "Field"}
                    /\ log[i].id = d.head[1]
                    /\ log[i].type = "Var" => ~is_generated(log[i].id)

C6_Witness ==
    /\ op.name = "group_by_calls" /\ Len(log) = 2
    /\ log[1].type = "App" /\ log[1].pos.tag = "Original"
    /\ log[1].pos.span.src_id # op.contract_id
    /\ log[2].type = "Var" /\ is_generated(log[2].id)
    /\ log[2].pos.tag = "Original" /\ SpanLe(log[2].pos.span, log[1].pos.span)
    /\ Returned(<<>>, <<CallDescr(<<>>, log[1].pos.span)>>)

\* every marker's attributed position lies in the file contract_id
AllInFile(contract_id) ==
    \A i \in 1..Len(log) :
        PosOf(log[i]).tag # "None" /\ PosOf(log[i]).span.src_id = contract_id

\* C7: when every marker's attributed position lies in the builtin file,
\* group_by_calls(builtin file) returns an empty closed list and no open call.
C7_BuiltinOnly ==
    (op.name = "group_by_calls" /\ AllInFile(op.contract_id)) => Returned(<<>>, <<>>)

C7_Witness ==
    /\ op.name = "group_by_calls" /\ AllInFile(op.contract_id)
    /\ Len(log) = 2
    /\ log[1].type = "App" /\ log[1].pos.tag = "Original"
    /\ log[2].type \in {"Var", "Field"} /\ ~is_generated(log[2].id)
    /\ PosOf(log[2]).tag = "Inherited"
    /\ Returned(<<>>, <<>>)

\* C8 as stated: enter_app(pos) appends App(pos) only if pos is original and
\* leaves the log unchanged for an inherited or undefined pos; enter_fun alike.
C8_Original ==
    [][/\ op'.name = "enter_app" =>
            log' = IF op'.pos.tag = "Original" THEN Append(log, App(op'.pos)) ELSE log
       /\ op'.name = "enter_fun" =>
            log' = IF op'.pos.tag = "Original" THEN Append(log, Fun(op'.pos)) ELSE log]_vars

\* C8 amended: enter_app(pos) appends App(pos) if and only if pos is defined
\* (original or inherited) and leaves the log unchanged for an undefined pos;
\* enter_fun(pos) applies the same guard for Fun(pos).
C8_DefinedGuard ==
    [][/\ op'.name = "enter_app" =>
            log' = IF op'.pos.tag \in {"Original", "Inherited"}
                   THEN Append(log, App(op'.pos)) ELSE log
       /\ op'.name = "enter_fun" =>
            log' = IF op'.pos.tag \in {"Original", "Inherited"}
                   THEN Append(log, Fun(op'.pos)) ELSE log]_vars

C8_Witness ==
    /\ op.name = "enter_app" /\ op.pos.tag = "Inherited"
    /\ Len(log) = 2 /\ log[2] = App(op.pos)

\* C9: enter_app and enter_fun with an undefined position leave the log as it was.
C9_UndefinedNoOp ==
    [][(op'.name \in {"enter_app", "enter_fun"} /\ op'.pos.tag = "None")
        => log' = log]_vars

C9_Witness ==
    /\ op.name = "enter_fun" /\ op.pos = NonePos
    /\ Len(log) = 2 /\ log[2].type = "App"

\* C10: truncate(c) at a checkpoint c = len() taken earlier, after any pushes and
\* truncations to m >= c, restores the log of the checkpoint, and so the result
\* of group_by_calls.
C10_Rollback ==
    (ckpt.set /\ op.name = "truncate" /\ op.n = ckpt.c) =>
        /\ log = ckpt.saved
        /\ len(log) = ckpt.c
        /\ \A cid \in Files : group_by_calls(log, cid) = group_by_calls(ckpt.saved, cid)

C10_Witness ==
    /\ ckpt.set /\ op.name = "truncate" /\ op.n = ckpt.c
    /\ ckpt.c = 1 /\ op.oldlen = 3
    /\ log = ckpt.saved

Min(a, b) == IF a <= b THEN a ELSE b

\* C11: truncate(n) keeps exactly the first min(n, len()) markers, unchanged and
\* in order; it is a no-op when n >= len(), and afterwards len() = min(n, old len()).
C11_TruncateKeepsPrefix ==
    [][op'.name = "truncate" =>
        /\ log' = SubSeq(log, 1, Min(op'.n, Len(log)))
        /\ len(log') = Min(op'.n, len(log))
        /\ op'.n >= len(log) => log' = log
        /\ len(log) >= op'.n => len(log') >= op'.n]_vars

C11_Witness ==
    /\ op.name = "truncate" /\ op.n = 1 /\ op.oldlen = 3
    /\ Len(log) = 1

\* C12: enter_var and enter_field always append: the new Var or Field marker is
\* placed at the end, len() grows by one and the earlier markers are unchanged,
\* whatever the tag of the position and whether the identifier is generated.
C12_VarFieldAppend ==
    [][/\ op'.name = "enter_var" =>
            /\ log' = Append(log, Var(op'.kind, op'.id, op'.pos))
            /\ len(log') = len(log) + 1
       /\ op'.name = "enter_field" =>
            /\ log' = Append(log, Field(op'.id, op'.pos_record, op'.pos_field,
                                        op'.pos_access))
            /\ len(log') = len(log) + 1]_vars

C12_Witness ==
    /\ op.name = "enter_var" /\ op.pos = NonePos /\ is_generated(op.id)
    /\ Len(log) = 2 /\ log[2] = Var(op.kind, op.id, op.pos)
    /\ log[1].type = "Field" /\ log[1].pos_access.tag = "Inherited"

\* C13: no App or Fun marker of a log built from the empty log by the mutators
\* carries an undefined position.
C13_NoUndefinedAppFun ==
    \A i \in 1..Len(log) :
        log[i].type \in {"App", "Fun"} => log[i].pos.tag # "None"

C13_Witness ==
    /\ op.name = "enter_app" /\ op.pos = NonePos
    /\ Len(log) = 2 /\ log[1].type = "App" /\ log[2].type = "Fun"

\* C14: on every log, ill-nested or holding markers without a position,
\* group_by_calls returns a pair, of a list of closed calls and at most one open
\* call: no unwrap() of an undefined position and no pop of an empty stack.
C14_Total ==
    op.name = "group_by_calls" =>
        /\ Len(res) = 1
        /\ ~res[1].panicked
        /\ Len(res[1].open) <= 1
        /\ \A contract_id \in Files : ~LoopAt(log, contract_id).panicked

C14_Witness ==
    /\ Called(0)
    /\ log = <<Fun(Original(RawSpan(1, 0, 1))), App(NonePos), Var("Let", "f", NonePos)>>
    /\ Returned(<<>>, <<>>)

\* the log without its App and Fun markers whose position is not original
WithoutInherited(l) ==
    SelectSeq(l, LAMBDA elem : ~(elem.type \in {"App", "Fun"} /\ elem.pos.tag # "Original"))

\* removing the App and Fun markers with an inherited or undefined position
\* does not change what group_by_calls returns
InheritedAppsIgnored ==
    op.name = "group_by_calls" =>
        res = <<group_by_calls(WithoutInherited(log), op.contract_id)>>

\* the marker at k, a Var or a Field with an inherited position outside the
\* builtin file, is kept, and names the top pending call when that call has no
\* head and encloses the position
InheritedIdentNames(k, contract_id) ==
    LET elem == log[k]
        before == LoopAt(SubSeq(log, 1, k - 1), contract_id)
        after == LoopAt(SubSeq(log, 1, k), contract_id)
    IN  /\ Keep(elem, contract_id)
        /\ (/\ before.pending # <<>>
            /\ Last(before.pending).head = <<>>
            /\ SpanLe(PosOf(elem).span, Last(before.pending).span))
           => /\ after.pending # <<>>
              /\ Last(after.pending).head = <<elem.id>>

InheritedIdentAt(k, contract_id) ==
    /\ log[k].type \in {"Var", "Field"}
    /\ PosOf(log[k]).tag = "Inherited"
    /\ PosOf(log[k]).span.src_id # contract_id

\* C18 as stated: App and Fun markers with an inherited or undefined position
\* are ignored, and every Var or Field marker with an inherited position
\* outside the builtin file is kept and may name a call.
C18_Original ==
    /\ InheritedAppsIgnored
    /\ op.name = "group_by_calls" =>
          \A k \in 1..Len(log) :
              InheritedIdentAt(k, op.contract_id) =>
                  InheritedIdentNames(k, op.contract_id)

\* C18: App and Fun markers with an inherited or undefined position are
\* ignored: removing them leaves the result unchanged.  Field markers, and Var
\* markers whose identifier is not generated, with an inherited position
\* outside the builtin file are kept and name the top pending call when it has
\* no head and encloses them.
C18_InheritedAppsIgnored ==
    /\ InheritedAppsIgnored
    /\ op.name = "group_by_calls" =>
          \A k \in 1..Len(log) :
              (/\ InheritedIdentAt(k, op.contract_id)
               /\ ~(log[k].type = "Var" /\ is_generated(log[k].id)))
                  => InheritedIdentNames(k, op.contract_id)

C18_Witness ==
    /\ Called(0)
    /\ log = <<App(Original(RawSpan(1, 0, 1))), Fun(Inherited(RawSpan(1, 0, 1))),
               Var("Let", "f", Inherited(RawSpan(1, 0, 0)))>>
    /\ Returned(<<>>, <<CallDescr(<<"f">>, RawSpan(1, 0, 1))>>)

\* the local vectors of the reconstruction last run, before and after the loop
\* processes the marker at k, and whether that marker passes the filter
Before(k) == LoopAt(SubSeq(log, 1, k - 1), op.contract_id)
After(k) == LoopAt(SubSeq(log, 1, k), op.contract_id)
Survives(k) == Keep(log[k], op.contract_id)
Top(st) == Last(st.pending)

\* C15: a surviving Var or Field marker met while the top pending call, created
\* by an App marker, has no head and encloses the marker's position gives its
\* identifier to that call as head; so App(s), Var or Field (id, p within s),
\* Fun(s) yields ([{head: Some(id), span: s}], None).
C15_NamedAfterApp ==
    op.name = "group_by_calls" =>
        /\ \A k \in 1..Len(log) :
              (/\ Survives(k) /\ log[k].type \in {"Var", "Field"}
               /\ Before(k).pending # <<>>
               /\ Top(Before(k)).head = <<>>
               /\ SpanLe(PosOf(log[k]).span, Top(Before(k)).span))
              => /\ After(k).pending =
                        Append(Front(Before(k).pending),
                               CallDescr(<<log[k].id>>, Top(Before(k)).span))
                 /\ After(k).entered = Before(k).entered
                 /\ \E j \in 1..(k - 1) :
                        /\ Survives(j) /\ log[j].type = "App"
                        /\ log[j].pos.span = Top(Before(k)).span
        /\ (/\ Len(log) = 3 /\ \A k \in 1..3 : Survives(k)
            /\ log[1].type = "App" /\ log[2].type \in {"Var", "Field"}
            /\ log[3] = Fun(log[1].pos)
            /\ SpanLe(PosOf(log[2]).span, log[1].pos.span))
           => Returned(<<CallDescr(<<log[2].id>>, log[1].pos.span)>>, <<>>)

C15_Witness ==
    /\ Called(0)
    /\ log = <<App(Original(RawSpan(1, 0, 1))),
               Var("Let", "f", Original(RawSpan(1, 1, 1))),
               Fun(Original(RawSpan(1, 0, 1)))>>
    /\ Returned(<<CallDescr(<<"f">>, RawSpan(1, 0, 1))>>, <<>>)

\* C16: a surviving App(span) pushes no call if and only if pending is not
\* empty and its top call's span encloses span and starts where span starts;
\* otherwise it pushes exactly {head: None, span}.  The calls already pending
\* and the closed calls are left as they are.
C16_AppMergeRule ==
    op.name = "group_by_calls" =>
        \A k \in 1..Len(log) :
            (Survives(k) /\ log[k].type = "App") =>
                LET span == log[k].pos.span
                    merged == /\ Before(k).pending # <<>>
                              /\ SpanLe(span, Top(Before(k)).span)
                              /\ span.start = Top(Before(k)).span.start
                IN  /\ After(k).entered = Before(k).entered
                    /\ merged <=> After(k).pending = Before(k).pending
                    /\ ~merged =>
                          After(k).pending =
                              Append(Before(k).pending, CallDescr(<<>>, span))

\* the third App would be a subcall of the first call, which is not on top
C16_Witness ==
    /\ Called(0)
    /\ log = <<App(Original(RawSpan(1, 0, 0))), App(Original(RawSpan(1, 1, 1))),
               App(Original(RawSpan(1, 0, 0)))>>
    /\ Len(LoopAt(log, 0).pending) = 3
    /\ Returned(<<>>, <<CallDescr(<<>>, RawSpan(1, 0, 0))>>)

\* C17: a surviving Fun(span) moves the top pending call to the end of entered
\* when pending is not empty and the span of its top call is span; otherwise,
\* even when a deeper pending call has that span, pending and entered are
\* unchanged.
C17_FunClosesTop ==
    op.name = "group_by_calls" =>
        \A k \in 1..Len(log) :
            (Survives(k) /\ log[k].type = "Fun") =>
                IF Before(k).pending # <<>> /\ Top(Before(k)).span = log[k].pos.span
                THEN /\ After(k).pending = Front(Before(k).pending)
                     /\ After(k).entered = Append(Before(k).entered, Top(Before(k)))
                ELSE /\ After(k).pending = Before(k).pending
                     /\ After(k).entered = Before(k).entered

\* the Fun has the span of the outer call while the inner call is on top
C17_Witness ==
    /\ Called(0)
    /\ log = <<App(Original(RawSpan(1, 0, 1))), App(Original(RawSpan(1, 1, 1))),
               Fun(Original(RawSpan(1, 0, 1)))>>
    /\ Len(LoopAt(log, 0).pending) = 2
    /\ Returned(<<>>, <<CallDescr(<<>>, RawSpan(1, 1, 1))>>)

\* C19: group_by_calls returns at most one open call: none exactly when pending
\* is empty after the loop, and otherwise the top of pending; the closed list
\* holds the calls of entered and nothing else, so the other pending calls
\* are not returned.
C19_OpenIsTop ==
    op.name = "group_by_calls" =>
        LET st == LoopAt(log, op.contract_id) IN
        /\ Len(res[1].open) <= 1
        /\ res[1].open = <<>> <=> st.pending = <<>>
        /\ st.pending # <<>> => res[1].open = <<Top(st)>>
        /\ Len(res[1].closed) = Len(st.entered)
        /\ \A i \in 1..Len(st.entered) :
              res[1].closed[i] = st.entered[Len(st.entered) + 1 - i]

\* the outer call, named f, is pending and is not returned
C19_Witness ==
    /\ Called(0)
    /\ log = <<App(Original(RawSpan(1, 0, 1))),
               Var("Let", "f", Original(RawSpan(1, 0, 0))),
               App(Original(RawSpan(1, 1, 1)))>>
    /\ Len(LoopAt(log, 0).pending) = 2
    /\ Returned(<<>>, <<CallDescr(<<>>, RawSpan(1, 1, 1))>>)

IsPrefix(s, t) == Len(s) <= Len(t) /\ s = SubSeq(t, 1, Len(s))

\* C20: a Var or Field marker changes at most the top pending call, and only
\* when that call has no head and encloses the marker's position; a pending
\* call that has a head keeps it until it is closed, and is closed with it;
\* the closed calls are never changed.
C20_HeadOnce ==
    op.name = "group_by_calls" =>
        \A k \in 1..Len(log) :
            Survives(k) =>
                /\ IsPrefix(Before(k).entered, After(k).entered)
                /\ \A i \in 1..Len(Before(k).pending) :
                      Before(k).pending[i].head # <<>> =>
                          \/ /\ i <= Len(After(k).pending)
                             /\ After(k).pending[i] = Before(k).pending[i]
                          \/ /\ i = Len(Before(k).pending)
                             /\ After(k).pending = Front(Before(k).pending)
                             /\ After(k).entered =
                                    Append(Before(k).entered, Before(k).pending[i])
                /\ log[k].type \in {"Var", "Field"} =>
                      /\ After(k).entered = Before(k).entered
                      /\ Len(After(k).pending) = Len(Before(k).pending)
                      /\ \A i \in 1..Len(Before(k).pending) :
                            (\/ i < Len(Before(k).pending)
                             \/ Before(k).pending[i].head # <<>>
                             \/ ~SpanLe(PosOf(log[k]).span, Before(k).pending[i].span))
                            => After(k).pending[i] = Before(k).pending[i]

\* g comes second and is enclosed by the call that f has named
C20_Witness ==
    /\ Called(0)
    /\ log = <<App(Original(RawSpan(1, 0, 1))),
               Var("Let", "f", Original(RawSpan(1, 0, 0))),
               Var("Let", "g", Original(RawSpan(1, 0, 0)))>>
    /\ Returned(<<>>, <<CallDescr(<<"f">>, RawSpan(1, 0, 1))>>)

\* the places in the log of the App, resp. Fun, markers with an original
\* position outside the builtin file
OriginalApps(contract_id) ==
    {i \in 1..Len(log) :
        /\ log[i].type = "App" /\ log[i].pos.tag = "Original"
        /\ log[i].pos.span.src_id # contract_id}

OriginalFuns(contract_id) ==
    {i \in 1..Len(log) :
        /\ log[i].type = "Fun" /\ log[i].pos.tag = "Original"
        /\ log[i].pos.span.src_id # contract_id}

\* C21: every call returned by group_by_calls, and every call left pending,
\* has the span of an App marker with an original position outside the builtin
\* file; a closed call has moreover the span of such a Fun marker placed later
\* in the log than the App marker.  So the closed and pending calls are at most
\* as many as these App markers, and the closed calls at most as many as these
\* Fun markers.
C21_Provenance ==
    op.name = "group_by_calls" =>
        LET apps == OriginalApps(op.contract_id)
            funs == OriginalFuns(op.contract_id)
            st == LoopAt(log, op.contract_id)
        IN  /\ \A d \in Descrs(res[1]) : \E i \in apps : log[i].pos.span = d.span
            /\ \A n \in 1..Len(st.pending) :
                  \E i \in apps : log[i].pos.span = st.pending[n].span
            /\ \A n \in 1..Len(res[1].closed) :
                  \E i \in apps, j \in funs :
                      /\ i < j
                      /\ log[i].pos.span = res[1].closed[n].span
                      /\ log[j].pos.span = res[1].closed[n].span
            /\ Len(res[1].closed) + Len(st.pending) <= Cardinality(apps)
            /\ Len(res[1].closed) <= Cardinality(funs)

\* two calls opened, the second one closed
C21_Witness ==
    /\ Called(0)
    /\ log = <<App(Original(RawSpan(1, 0, 0))), App(Original(RawSpan(1, 0, 1))),
               Fun(Original(RawSpan(1, 0, 1)))>>
    /\ Returned(<<CallDescr(<<>>, RawSpan(1, 0, 1))>>,
                <<CallDescr(<<>>, RawSpan(1, 0, 0))>>)

====
